---- MODULE Spec2Model ----
(***************************************************************************)
(* A model of the CALEX Flask backend (src/app.py): four JSON stores       *)
(* (projects, goals, insights, files), the upload directory, and one       *)
(* action per HTTP handler.  Text values (names, titles, file names) are   *)
(* sequences of one-character strings so that strip(), lower(), rsplit()   *)
(* and secure_filename() are computed as the code computes them.           *)
(* Identifiers are the positions of the uuid4() stream: every call yields  *)
(* a value never produced before; 0 stands for an id a client made up.     *)
(* SpecRace runs three handlers as a load step and a save step, which can  *)
(* interleave, and SpecFaulty lets save_json_data fail.                    *)
(***************************************************************************)
EXTENDS Integers, Sequences, FiniteSets, TLC

VARIABLES
    projects,   \* contents of data/projects.json : id -> project record
    goals,      \* contents of data/goals.json    : id -> goal record
    insights,   \* contents of data/insights.json : id -> insight record
    files,      \* contents of data/files.json    : id -> file metadata
    disk,       \* paths of the uploaded files present under data/
    clock,      \* datetime.now(): one tick per request that reads it or draws a uuid
    nextId,     \* position in the uuid4() stream
    req,        \* the request served last
    resp,       \* the response it was given
    deleted,    \* history: what a DELETE answered with success removed
    generated,  \* history: project id -> generate requests served since its last start
    writable,   \* whether open(filename, 'w') on a store file succeeds
    inflight,   \* the requests begun while handlers run step by step, in order of arrival
    horizon     \* bound of the run: the number of state-changing requests served

vars == <<projects, goals, insights, files, disk, clock, nextId, req, resp, deleted, generated,
         writable, inflight, horizon>>

\* ------------------------------------------------------------------ bounds
\* State-changing requests served in one run of each specification.
MaxClock == 3
MaxProjectClock == 6
MaxGoalClock == 4
MaxFileClock == 4
\* Requests begun in one run of the step-by-step specification.
MaxRequests == 3
\* State-changing requests served in one run with failing saves.
MaxFaultClock == 2

\* ------------------------------------------------------------ python helpers
Min(a, b) == IF a < b THEN a ELSE b

\* dict.get(k, default)
Get(d, k, default) == IF k \in DOMAIN d THEN d[k] ELSE default

\* Mutant of Put: the dict is replaced by the one entry.
PutAlone(d, k, v) == [x \in {k} |-> v]

\* d[k] = v
Put(d, k, v) == [x \in DOMAIN d \cup {k} |-> IF x = k THEN v ELSE d[x]]

\* del d[k]
Del(d, k) == [x \in DOMAIN d \ {k} |-> d[x]]

\* list(d.values()): a dict keeps insertion order, and keys are inserted in
\* the order uuid4() issued them.
RECURSIVE Values(_)
Values(d) ==
    IF DOMAIN d = {} THEN <<>>
    ELSE LET k == CHOOSE x \in DOMAIN d : \A y \in DOMAIN d : x <= y
         IN <<d[k]>> \o Values(Del(d, k))

\* Mutant of CountFor: the filter on project_id is forgotten.
CountAll(d, project_id) == Len(Values(d))

\* len([r for r in d.values() if r.get('project_id') == project_id])
CountFor(d, project_id) ==
    Len(SelectSeq(Values(d), LAMBDA r : r.project_id = project_id))

\* str.strip(): whitespace removed at both ends
Whitespace == {" ", "\t"}

RECURSIVE LStrip(_)
LStrip(s) == IF s # <<>> /\ Head(s) \in Whitespace THEN LStrip(Tail(s)) ELSE s

RECURSIVE RStrip(_)
RStrip(s) ==
    IF s # <<>> /\ s[Len(s)] \in Whitespace THEN RStrip(SubSeq(s, 1, Len(s) - 1)) ELSE s

\* Mutant of Strip: the text is taken as sent.
StripNothing(s) == s

Strip(s) == RStrip(LStrip(s))

\* the i-th uuid4() of the request being served
uuid4(i) == nextId + i

\* datetime.now().isoformat()
Now == clock

\* load_json_data(filename): the file's contents ({} while it does not exist)
load_json_data(file) == file

\* Mutant of save_json_data: the write is lost.
save_json_data_lost(file, data) == file

\* Mutant of save_json_data: the entries of the file that data lacks are kept.
save_json_data_merged(file, data) ==
    [k \in DOMAIN file \cup DOMAIN data |-> IF k \in DOMAIN data THEN data[k] ELSE file[k]]

\* save_json_data(filename, data): the contents of the file afterwards.  The
\* file is overwritten with data; when it cannot be opened for writing the
\* exception is logged, False is returned and the file is left as it was.
save_json_data(file, data) == IF writable THEN data ELSE file

\* --------------------------------------------------------- project handlers
\* GET /api/projects
get_projects(projects_file, goals_file, insights_file, files_file) ==
    LET ps == load_json_data(projects_file)
        gs == load_json_data(goals_file)
        is == load_json_data(insights_file)
        fs == load_json_data(files_file)
        withCounts(project) ==
            [project EXCEPT !.documents_count = CountFor(fs, project.id),
                            !.goals_count = CountFor(gs, project.id),
                            !.insights_count = CountFor(is, project.id),
                            !.research_progress = Get(project, "research_progress", 0)]
        projects_list == Values(ps)
    IN [ticks |-> 0,
        resp |-> [status |-> 200,
                  projects |-> [i \in 1..Len(projects_list) |-> withCounts(projects_list[i])]]]

\* POST /api/projects
create_project(data, projects_file, now) ==
    LET name == Strip(Get(data, "name", <<>>))
        description == Strip(Get(data, "description", <<>>))
    IN IF name = <<>>
       THEN [projects |-> projects_file, uuids |-> 0, ticks |-> 0,
             resp |-> [status |-> 400, error |-> "Project name is required"]]
       ELSE LET ps == load_json_data(projects_file)
                project_id == uuid4(0)
                project == [id |-> project_id,
                            name |-> name,
                            description |-> description,
                            status |-> "setup",
                            created_at |-> now,
                            updated_at |-> now,
                            documents_count |-> 0,
                            goals_count |-> 0,
                            insights_count |-> 0,
                            research_progress |-> 0]
            IN [projects |-> save_json_data(projects_file, Put(ps, project_id, project)),
                uuids |-> 1, ticks |-> 1,
                resp |-> [status |-> 201, project |-> project]]

\* Mutant of start_research: the progress is kept.
start_research_keeps_progress(project_id, projects_file, now) ==
    LET ps == load_json_data(projects_file)
    IN IF project_id \notin DOMAIN ps
       THEN [projects |-> projects_file, ticks |-> 0,
             resp |-> [status |-> 404, error |-> "Project not found"]]
       ELSE LET project == [ps[project_id] EXCEPT !.status = "researching",
                                                  !.updated_at = now]
            IN [projects |-> save_json_data(projects_file, Put(ps, project_id, project)),
                ticks |-> 1,
                resp |-> [status |-> 200, message |-> "Research started successfully"]]

\* POST /api/projects/<project_id>/start-research
start_research(project_id, projects_file, now) ==
    LET ps == load_json_data(projects_file)
    IN IF project_id \notin DOMAIN ps
       THEN [projects |-> projects_file, ticks |-> 0,
             resp |-> [status |-> 404, error |-> "Project not found"]]
       ELSE LET project == [ps[project_id] EXCEPT !.status = "researching",
                                                  !.updated_at = now,
                                                  !.research_progress = 0]
            IN [projects |-> save_json_data(projects_file, Put(ps, project_id, project)),
                ticks |-> 1,
                resp |-> [status |-> 200, message |-> "Research started successfully"]]

\* Mutant of start_live_research: the progress is kept.
start_live_research_keeps_progress(project_id, projects_file, now) ==
    LET ps == load_json_data(projects_file)
    IN IF project_id \notin DOMAIN ps
       THEN [projects |-> projects_file, ticks |-> 0,
             resp |-> [status |-> 404, error |-> "Project not found"]]
       ELSE LET old == ps[project_id]
                merged == [k \in DOMAIN old \cup {"live_research_started"} |->
                              IF k = "live_research_started" THEN TRUE ELSE old[k]]
                project == [merged EXCEPT !.status = "researching",
                                          !.updated_at = now]
            IN [projects |-> save_json_data(projects_file, Put(ps, project_id, project)),
                ticks |-> 1,
                resp |-> [status |-> 200, message |-> "Live research started successfully"]]

\* POST /api/research/project/<project_id>/start-live
start_live_research(project_id, projects_file, now) ==
    LET ps == load_json_data(projects_file)
    IN IF project_id \notin DOMAIN ps
       THEN [projects |-> projects_file, ticks |-> 0,
             resp |-> [status |-> 404, error |-> "Project not found"]]
       ELSE LET old == ps[project_id]
                merged == [k \in DOMAIN old \cup {"live_research_started"} |->
                              IF k = "live_research_started" THEN TRUE ELSE old[k]]
                project == [merged EXCEPT !.status = "researching",
                                          !.updated_at = now,
                                          !.research_progress = 0]
            IN [projects |-> save_json_data(projects_file, Put(ps, project_id, project)),
                ticks |-> 1,
                resp |-> [status |-> 200, message |-> "Live research started successfully"]]

\* -------------------------------------------------------- insight handlers
\* GET /api/insights/project/<project_id>
get_project_insights(project_id, insights_file) ==
    [ticks |-> 0,
     resp |-> [status |-> 200,
               insights |-> SelectSeq(Values(load_json_data(insights_file)),
                                      LAMBDA i : i.project_id = project_id)]]

\* The three literal records of generate_insights (content by its first
\* words, scores in hundredths)
sample_insight(n, project_id, now) ==
    [id |-> uuid4(n - 1),
     content |-> <<"Based on the uploaded documents", "The data suggests",
                   "Further investigation is needed">>[n],
     insight_type |-> <<"finding", "recommendation", "question">>[n],
     confidence_score |-> <<85, 78, 65>>[n],
     relevance_score |-> <<92, 88, 75>>[n],
     tags |-> << <<"market analysis", "consumer behavior", "trends">>,
                 <<"strategy", "risk management", "implementation">>,
                 <<"investigation", "patterns", "analysis">> >>[n],
     project_id |-> project_id,
     created_at |-> now]

\* Mutant of bump_progress: the cap is forgotten.
bump_progress_uncapped(progress) == progress + 25

\* min(100, progress + 25)
bump_progress(progress) == Min(100, progress + 25)

\* POST /api/insights/project/<project_id>/generate
generate_insights(project_id, insights_file, projects_file, now) ==
    LET is == load_json_data(insights_file)
        sample_insights == [n \in 1..3 |-> sample_insight(n, project_id, now)]
        added == [k \in DOMAIN is \cup {sample_insights[n].id : n \in 1..3} |->
                     IF k \in DOMAIN is /\ \A n \in 1..3 : sample_insights[n].id # k
                     THEN is[k]
                     ELSE sample_insights[CHOOSE n \in 1..3 : sample_insights[n].id = k]]
        ps == load_json_data(projects_file)
    IN [insights |-> save_json_data(insights_file, added),
        projects |->
            IF project_id \in DOMAIN ps
            THEN save_json_data(projects_file,
                     [ps EXCEPT ![project_id] =
                         [@ EXCEPT !.research_progress =
                                       bump_progress(Get(ps[project_id], "research_progress", 0)),
                                   !.updated_at = now]])
            ELSE projects_file,
        uuids |-> 3, ticks |-> 1,
        resp |-> [status |-> 200, message |-> "Insights generated successfully"]]


\* ----------------------------------------------------------- goal handlers
\* GET /api/goals/project/<project_id>
get_project_goals(project_id, goals_file) ==
    [ticks |-> 0,
     resp |-> [status |-> 200,
               goals |-> SelectSeq(Values(load_json_data(goals_file)),
                                   LAMBDA g : g.project_id = project_id)]]

\* POST /api/goals/project/<project_id>
create_goal(project_id, data, goals_file, now) ==
    LET title == Strip(Get(data, "title", <<>>))
        description == Strip(Get(data, "description", <<>>))
        priority == Get(data, "priority", "medium")
    IN IF title = <<>>
       THEN [goals |-> goals_file, uuids |-> 0, ticks |-> 0,
             resp |-> [status |-> 400, error |-> "Goal title is required"]]
       ELSE LET gs == load_json_data(goals_file)
                goal_id == uuid4(0)
                goal == [id |-> goal_id,
                         title |-> title,
                         description |-> description,
                         priority |-> priority,
                         status |-> "active",
                         project_id |-> project_id,
                         created_at |-> now,
                         updated_at |-> now,
                         progress |-> 0]
            IN [goals |-> save_json_data(goals_file, Put(gs, goal_id, goal)),
                uuids |-> 1, ticks |-> 1,
                resp |-> [status |-> 201, goal |-> goal]]

\* Mutant of dict_update: the body replaces the goal's text fields, so a
\* description the body does not name is emptied.
dict_update_replace(goal, data) ==
    [k \in DOMAIN goal \cup DOMAIN data |->
        IF k \in DOMAIN data THEN data[k]
        ELSE IF k = "description" THEN <<>> ELSE goal[k]]

\* goal.update(data): every key of data is set in goal, the others are kept
dict_update(goal, data) ==
    [k \in DOMAIN goal \cup DOMAIN data |-> IF k \in DOMAIN data THEN data[k] ELSE goal[k]]

\* Mutant of update_goal: a PUT on an unknown id files the body under it.
update_goal_upsert(goal_id, data, goals_file, now) ==
    LET gs == load_json_data(goals_file)
        old == IF goal_id \in DOMAIN gs THEN gs[goal_id] ELSE [id |-> goal_id]
        goal == dict_update(dict_update(old, data), [updated_at |-> now])
    IN [goals |-> save_json_data(goals_file, Put(gs, goal_id, goal)),
        ticks |-> 1,
        resp |-> [status |-> 200, goal |-> goal]]

\* PUT /api/goals/<goal_id>
update_goal(goal_id, data, goals_file, now) ==
    LET gs == load_json_data(goals_file)
    IN IF goal_id \notin DOMAIN gs
       THEN [goals |-> goals_file, ticks |-> 0,
             resp |-> [status |-> 404, error |-> "Goal not found"]]
       ELSE LET goal == [dict_update(gs[goal_id], data) EXCEPT !.updated_at = now]
            IN [goals |-> save_json_data(goals_file, Put(gs, goal_id, goal)),
                ticks |-> 1,
                resp |-> [status |-> 200, goal |-> goal]]

\* DELETE /api/goals/<goal_id>
delete_goal(goal_id, goals_file) ==
    LET gs == load_json_data(goals_file)
    IN IF goal_id \notin DOMAIN gs
       THEN [goals |-> goals_file, ticks |-> 0,
             resp |-> [status |-> 404, error |-> "Goal not found"]]
       ELSE [goals |-> save_json_data(goals_file, Del(gs, goal_id)),
             ticks |-> 1,
             resp |-> [status |-> 200, message |-> "Goal deleted successfully"]]

\* ----------------------------------------------------------- file handlers
ALLOWED_EXTENSIONS ==
    { <<"t","x","t">>, <<"p","d","f">>, <<"p","n","g">>, <<"j","p","g">>,
      <<"j","p","e","g">>, <<"g","i","f">>, <<"d","o","c">>, <<"d","o","c","x">>,
      <<"c","s","v">>, <<"j","s","o","n">>, <<"x","m","l">>, <<"x","l","s">>,
      <<"x","l","s","x">>, <<"m","d">> }

UpperCase == <<"A","B","C","D","E","F","G","H","I","J","K","L","M",
               "N","O","P","Q","R","S","T","U","V","W","X","Y","Z">>
LowerCase == <<"a","b","c","d","e","f","g","h","i","j","k","l","m",
               "n","o","p","q","r","s","t","u","v","w","x","y","z">>
Digits == {"0","1","2","3","4","5","6","7","8","9"}

Range(s) == {s[i] : i \in DOMAIN s}

\* str.lower()
LowerChar(c) ==
    IF c \in Range(UpperCase)
    THEN LowerCase[CHOOSE i \in DOMAIN UpperCase : UpperCase[i] = c]
    ELSE c
Lower(s) == [i \in DOMAIN s |-> LowerChar(s[i])]

\* filename.rsplit('.', 1)[1]: the text after the last dot (the caller has
\* checked that there is a dot)
AfterLastDot(s) ==
    LET i == CHOOSE j \in DOMAIN s : s[j] = "." /\ \A k \in DOMAIN s : k > j => s[k] # "."
    IN SubSeq(s, i + 1, Len(s))

\* Mutant of allowed_file: split('.') in place of rsplit('.', 1), so the text
\* between the first two dots is taken for the extension.
allowed_file_first_dot(filename) ==
    /\ "." \in Range(filename)
    /\ LET i == CHOOSE j \in DOMAIN filename :
                    filename[j] = "." /\ \A k \in 1..(j - 1) : filename[k] # "."
           rest == SubSeq(filename, i + 1, Len(filename))
           n == IF "." \in Range(rest)
                THEN (CHOOSE j \in DOMAIN rest :
                         rest[j] = "." /\ \A k \in 1..(j - 1) : rest[k] # ".") - 1
                ELSE Len(rest)
       IN Lower(SubSeq(rest, 1, n)) \in ALLOWED_EXTENSIONS

allowed_file(filename) ==
    "." \in Range(filename) /\ Lower(AfterLastDot(filename)) \in ALLOWED_EXTENSIONS

\* werkzeug.utils.secure_filename on a POSIX host.  "U+6587" stands for one
\* character outside ASCII with no ASCII decomposition.
NonAscii == {"U+6587"}
SafeChars == Range(UpperCase) \cup Range(LowerCase) \cup Digits \cup {"_", ".", "-"}

\* "_".join(s.split())
RECURSIVE JoinSplit(_)
JoinSplit(s) ==
    LET t == LStrip(s)
    IN IF t = <<>> THEN <<>>
       ELSE LET n == IF \E i \in DOMAIN t : t[i] \in Whitespace
                     THEN (CHOOSE i \in DOMAIN t :
                              t[i] \in Whitespace /\ \A j \in 1..(i - 1) : t[j] \notin Whitespace) - 1
                     ELSE Len(t)
                rest == LStrip(SubSeq(t, n + 1, Len(t)))
            IN IF rest = <<>> THEN SubSeq(t, 1, n)
               ELSE SubSeq(t, 1, n) \o <<"_">> \o JoinSplit(rest)

\* str.strip("._")
RECURSIVE StripDots(_)
StripDots(s) ==
    IF s # <<>> /\ Head(s) \in {".", "_"} THEN StripDots(Tail(s))
    ELSE IF s # <<>> /\ s[Len(s)] \in {".", "_"} THEN StripDots(SubSeq(s, 1, Len(s) - 1))
    ELSE s

secure_filename(filename) ==
    LET ascii == SelectSeq(filename, LAMBDA c : c \notin NonAscii)
        nosep == [i \in DOMAIN ascii |-> IF ascii[i] = "/" THEN " " ELSE ascii[i]]
        joined == JoinSplit(nosep)
    IN StripDots(SelectSeq(joined, LAMBDA c : c \in SafeChars))

\* POST /api/upload.  request: has_file ('file' in request.files), filename,
\* content_type, size (bytes sent), project_id (<<>> when the form field is
\* missing or empty, <<id>> otherwise).
upload_file(request, files_file, disk_paths, now) ==
    LET rejected(msg) == [files |-> files_file, disk |-> disk_paths, uuids |-> 0, ticks |-> 0,
                          resp |-> [status |-> 400, error |-> msg]]
    IN IF ~request.has_file THEN rejected("No file provided")
       ELSE IF request.project_id = <<>> THEN rejected("Project ID is required")
       ELSE IF request.filename = <<>> THEN rejected("No file selected")
       ELSE IF ~allowed_file(request.filename) THEN rejected("File type not allowed")
       ELSE LET filename == secure_filename(request.filename)
                file_id == uuid4(0)
            IN IF "." \notin Range(filename)
               \* filename.rsplit('.', 1)[1] raises IndexError: the blanket except answers
               THEN [files |-> files_file, disk |-> disk_paths, uuids |-> 1, ticks |-> 1,
                     resp |-> [status |-> 500, error |-> "Failed to upload file"]]
               ELSE LET file_extension == Lower(AfterLastDot(filename))
                        file_path == <<file_id, filename>>
                        fs == load_json_data(files_file)
                        file_data ==
                            [id |-> file_id,
                             filename |-> filename,
                             original_name |-> request.filename,
                             size |-> request.size,
                             type |-> IF request.content_type # <<>>
                                      THEN request.content_type
                                      ELSE <<"application/">> \o file_extension,
                             project_id |-> request.project_id[1],
                             upload_date |-> now,
                             status |-> "completed",
                             path |-> file_path]
                    IN [files |-> save_json_data(files_file, Put(fs, file_id, file_data)),
                        disk |-> disk_paths \cup {file_path},
                        uuids |-> 1, ticks |-> 1,
                        resp |-> [status |-> 200, file |-> file_data]]

\* GET /api/files
list_files(files_file) ==
    [ticks |-> 0,
     resp |-> [status |-> 200, files |-> Values(load_json_data(files_file))]]

\* Mutant of delete_file: the uploaded file is left on disk.
delete_file_keeps_file(file_id, files_file, disk_paths) ==
    LET fs == load_json_data(files_file)
    IN IF file_id \notin DOMAIN fs
       THEN [files |-> files_file, disk |-> disk_paths, ticks |-> 0,
             resp |-> [status |-> 404, error |-> "File not found"]]
       ELSE [files |-> save_json_data(files_file, Del(fs, file_id)),
             disk |-> disk_paths,
             ticks |-> 1,
             resp |-> [status |-> 200, message |-> "File deleted successfully"]]

\* DELETE /api/files/<file_id>
delete_file(file_id, files_file, disk_paths) ==
    LET fs == load_json_data(files_file)
    IN IF file_id \notin DOMAIN fs
       THEN [files |-> files_file, disk |-> disk_paths, ticks |-> 0,
             resp |-> [status |-> 404, error |-> "File not found"]]
       ELSE LET file_data == fs[file_id]
                file_path == file_data.path
            IN [files |-> save_json_data(files_file, Del(fs, file_id)),
                disk |-> IF file_path \in disk_paths THEN disk_paths \ {file_path}
                         ELSE disk_paths,
                ticks |-> 1,
                resp |-> [status |-> 200, message |-> "File deleted successfully"]]

\* ------------------------------------------------------------------ inputs
\* JSON bodies of POST /api/projects
ProjectBodies ==
    { [name |-> <<"a">>],
      [name |-> <<" ", "a", " ">>, description |-> <<" ", "d">>],
      [description |-> <<"d">>],
      [name |-> <<>>],
      [name |-> <<" ", "\t">>] }

CoreProjectBodies == { [name |-> <<"a">>], [name |-> <<>>] }

\* JSON bodies of POST /api/goals/project/<project_id>
GoalBodies ==
    { [title |-> <<"t">>],
      [title |-> <<" ", "t">>, description |-> <<"d", " ">>, priority |-> "high"],
      [description |-> <<"d">>],
      [title |-> <<>>],
      [title |-> <<"\t", " ">>] }

\* Ids a client can put in a URL, a form or a body: those it was given
\* (deleted ones too), or one it made up.
ProjectRefs == DOMAIN projects \cup {0}
GoalRefs == DOMAIN goals \cup deleted.goals \cup {0}
FileRefs == DOMAIN files \cup {f.id : f \in deleted.files} \cup {0}

\* JSON bodies of PUT /api/goals/<goal_id>
GoalPatches ==
    { [status |-> "done"], [note |-> <<"n">>], [status |-> "done", progress |-> 50],
      [updated_at |-> 0] }
    \cup { [id |-> g] : g \in GoalRefs }
    \cup { [project_id |-> p] : p \in ProjectRefs }

CoreGoalPatches == { [status |-> "done"] } \cup { [project_id |-> p] : p \in ProjectRefs }

\* Multipart bodies of POST /api/upload
FileNames ==
    { <<"a", ".", "m", "d">>,
      <<"A", " ", "b", ".", "M", "D">>,
      <<".", "t", "x", "t">>,
      <<"U+6587", ".", "p", "d", "f">>,
      <<"a", ".", "e", "x", "e">>,
      <<"a", ".", "m", "d", ".">>,
      <<"m", "d">>,
      <<>> }

CoreFileNames == { <<"a", ".", "m", "d">>, <<"a", ".", "e", "x", "e">> }

UploadRequests(names) ==
    { [has_file |-> FALSE, filename |-> <<>>, content_type |-> <<>>, size |-> 0,
       project_id |-> <<0>>] }
    \cup { [has_file |-> TRUE, filename |-> fn,
            content_type |-> IF fn = <<"a", ".", "m", "d">> THEN <<"text/markdown">> ELSE <<>>,
            size |-> Len(fn),
            project_id |-> p] :
           fn \in names, p \in {<<>>} \cup {<<r>> : r \in ProjectRefs} }

\* ----------------------------------------------------------------- actions
Boot ==
    /\ projects = <<>>
    /\ goals = <<>>
    /\ insights = <<>>
    /\ files = <<>>
    /\ disk = {}
    /\ clock = 0
    /\ nextId = 1
    /\ req = [op |-> "none"]
    /\ resp = [status |-> 0]
    /\ deleted = [goals |-> {}, files |-> {}]
    /\ generated = <<>>
    /\ writable = TRUE
    /\ inflight = <<>>

\* Time passes for a request that reads the clock or draws a uuid; a run
\* serves at most horizon of those.
Serve(r) ==
    /\ clock + r.ticks <= horizon
    /\ clock' = clock + r.ticks
    /\ resp' = r.resp
    /\ UNCHANGED <<writable, inflight, horizon>>

GetProjects ==
    LET r == get_projects(projects, goals, insights, files)
    IN /\ Serve(r)
       /\ req' = [op |-> "get_projects"]
       /\ UNCHANGED <<projects, goals, insights, files, disk, nextId, deleted, generated>>

CreateProject(data) ==
    LET r == create_project(data, projects, Now)
    IN /\ Serve(r)
       /\ req' = [op |-> "create_project", data |-> data]
       /\ projects' = r.projects
       /\ nextId' = nextId + r.uuids
       /\ generated' = IF r.resp.status = 201
                       THEN Put(generated, r.resp.project.id, 0)
                       ELSE generated
       /\ UNCHANGED <<goals, insights, files, disk, deleted>>

StartResearch(project_id) ==
    LET r == start_research(project_id, projects, Now)
    IN /\ Serve(r)
       /\ req' = [op |-> "start_research", id |-> project_id]
       /\ projects' = r.projects
       /\ generated' = IF r.resp.status = 200
                       THEN Put(generated, project_id, 0)
                       ELSE generated
       /\ UNCHANGED <<goals, insights, files, disk, nextId, deleted>>

StartLiveResearch(project_id) ==
    LET r == start_live_research(project_id, projects, Now)
    IN /\ Serve(r)
       /\ req' = [op |-> "start_live_research", id |-> project_id]
       /\ projects' = r.projects
       /\ generated' = IF r.resp.status = 200
                       THEN Put(generated, project_id, 0)
                       ELSE generated
       /\ UNCHANGED <<goals, insights, files, disk, nextId, deleted>>

GetProjectInsights(project_id) ==
    LET r == get_project_insights(project_id, insights)
    IN /\ Serve(r)
       /\ req' = [op |-> "get_project_insights", id |-> project_id]
       /\ UNCHANGED <<projects, goals, insights, files, disk, nextId, deleted, generated>>

GenerateInsights(project_id) ==
    LET r == generate_insights(project_id, insights, projects, Now)
    IN /\ Serve(r)
       /\ req' = [op |-> "generate_insights", id |-> project_id]
       /\ insights' = r.insights
       /\ projects' = r.projects
       /\ nextId' = nextId + r.uuids
       /\ generated' = IF project_id \in DOMAIN generated
                       THEN [generated EXCEPT ![project_id] = @ + 1]
                       ELSE generated
       /\ UNCHANGED <<goals, files, disk, deleted>>

GetProjectGoals(project_id) ==
    LET r == get_project_goals(project_id, goals)
    IN /\ Serve(r)
       /\ req' = [op |-> "get_project_goals", id |-> project_id]
       /\ UNCHANGED <<projects, goals, insights, files, disk, nextId, deleted, generated>>

CreateGoal(project_id, data) ==
    LET r == create_goal(project_id, data, goals, Now)
    IN /\ Serve(r)
       /\ req' = [op |-> "create_goal", id |-> project_id, data |-> data]
       /\ goals' = r.goals
       /\ nextId' = nextId + r.uuids
       /\ UNCHANGED <<projects, insights, files, disk, deleted, generated>>

UpdateGoal(goal_id, data) ==
    LET r == update_goal(goal_id, data, goals, Now)
    IN /\ Serve(r)
       /\ req' = [op |-> "update_goal", id |-> goal_id, data |-> data]
       /\ goals' = r.goals
       /\ UNCHANGED <<projects, insights, files, disk, nextId, deleted, generated>>

DeleteGoal(goal_id) ==
    LET r == delete_goal(goal_id, goals)
    IN /\ Serve(r)
       /\ req' = [op |-> "delete_goal", id |-> goal_id]
       /\ goals' = r.goals
       /\ deleted' = IF r.resp.status = 200
                     THEN [deleted EXCEPT !.goals = @ \cup {goal_id}]
                     ELSE deleted
       /\ UNCHANGED <<projects, insights, files, disk, nextId, generated>>

UploadFile(request) ==
    LET r == upload_file(request, files, disk, Now)
    IN /\ Serve(r)
       /\ req' = [op |-> "upload_file", form |-> request]
       /\ files' = r.files
       /\ disk' = r.disk
       /\ nextId' = nextId + r.uuids
       /\ UNCHANGED <<projects, goals, insights, deleted, generated>>

ListFiles ==
    LET r == list_files(files)
    IN /\ Serve(r)
       /\ req' = [op |-> "list_files"]
       /\ UNCHANGED <<projects, goals, insights, files, disk, nextId, deleted, generated>>

DeleteFile(file_id) ==
    LET r == delete_file(file_id, files, disk)
    IN /\ Serve(r)
       /\ req' = [op |-> "delete_file", id |-> file_id]
       /\ files' = r.files
       /\ disk' = r.disk
       /\ deleted' = IF r.resp.status = 200
                     THEN [deleted EXCEPT !.files = @ \cup {files[file_id]}]
                     ELSE deleted
       /\ UNCHANGED <<projects, goals, insights, nextId, generated>>

\* ---------------------------------------------------------- specifications
\* In the specifications of this section a step is one handler run from its
\* first line to its return, one request after the other.
\*
\* The whole service, over short runs.
Init == Boot /\ horizon = MaxClock

Next ==
    \/ GetProjects
    \/ \E data \in ProjectBodies : CreateProject(data)
    \/ \E p \in ProjectRefs : StartResearch(p)
    \/ \E p \in ProjectRefs : StartLiveResearch(p)
    \/ \E p \in ProjectRefs : GenerateInsights(p)
    \/ \E p \in ProjectRefs : GetProjectInsights(p)
    \/ \E p \in ProjectRefs : GetProjectGoals(p)
    \/ \E p \in ProjectRefs, data \in GoalBodies : CreateGoal(p, data)
    \/ \E g \in GoalRefs, data \in CoreGoalPatches : UpdateGoal(g, data)
    \/ \E g \in GoalRefs : DeleteGoal(g)
    \/ \E request \in UploadRequests(CoreFileNames) : UploadFile(request)
    \/ ListFiles
    \/ \E f \in FileRefs : DeleteFile(f)

Spec == Init /\ [][Next]_vars

\* The project and insight endpoints alone, over longer runs.
InitProjects == Boot /\ horizon = MaxProjectClock

NextProjects ==
    \/ GetProjects
    \/ \E data \in CoreProjectBodies : CreateProject(data)
    \/ \E p \in ProjectRefs : StartResearch(p)
    \/ \E p \in ProjectRefs : StartLiveResearch(p)
    \/ \E p \in ProjectRefs : GenerateInsights(p)

SpecProjects == InitProjects /\ [][NextProjects]_vars

\* The goal endpoints alone.
InitGoals == Boot /\ horizon = MaxGoalClock

NextGoals ==
    \/ \E p \in ProjectRefs : GetProjectGoals(p)
    \/ \E p \in ProjectRefs, data \in GoalBodies : CreateGoal(p, data)
    \/ \E g \in GoalRefs, data \in GoalPatches : UpdateGoal(g, data)
    \/ \E g \in GoalRefs : DeleteGoal(g)

SpecGoals == InitGoals /\ [][NextGoals]_vars

\* The file endpoints alone.
InitFiles == Boot /\ horizon = MaxFileClock

NextFiles ==
    \/ \E request \in UploadRequests(FileNames) : UploadFile(request)
    \/ ListFiles
    \/ \E f \in FileRefs : DeleteFile(f)

SpecFiles == InitFiles /\ [][NextFiles]_vars

\* ------------------------------------------------- handlers step by step
\* The development server serves each request on a thread of its own, so a
\* handler's load of a store and its later save are two steps, between which
\* other handlers can take theirs.  A request begins with everything its
\* handler does up to the dict it is about to save (validation, uuid4(),
\* now(), the write or removal of the uploaded file, the load); a request
\* answered with an error ends there.  It finishes with save_json_data on
\* that dict and the response.
Succeeded(r) == r.resp.status \in {200, 201}

Arrive(request, r, id, data, seen) ==
    /\ Len(inflight) < horizon
    /\ inflight' = Append(inflight,
                          [req |-> request,
                           pc |-> IF Succeeded(r) THEN "loaded" ELSE "done",
                           id |-> id,
                           data |-> data,
                           seen |-> seen,
                           resp |-> r.resp,
                           overlapped |-> \E i \in DOMAIN inflight : inflight[i].pc = "loaded"])
    /\ clock' = clock + r.ticks
    /\ req' = IF Succeeded(r) THEN req ELSE request
    /\ resp' = IF Succeeded(r) THEN resp ELSE r.resp
    /\ UNCHANGED <<writable, horizon>>

Answer(i) ==
    /\ inflight' = [inflight EXCEPT ![i].pc = "done"]
    /\ req' = inflight[i].req
    /\ resp' = inflight[i].resp
    /\ UNCHANGED <<clock, nextId, writable, horizon>>

Pending(op) == {i \in DOMAIN inflight : inflight[i].req.op = op /\ inflight[i].pc = "loaded"}

BeginCreateProject(data) ==
    LET r == create_project(data, projects, Now)
    IN /\ Arrive([op |-> "create_project", data |-> data], r,
                 IF Succeeded(r) THEN r.resp.project.id ELSE 0,
                 r.projects, DOMAIN load_json_data(projects))
       /\ nextId' = nextId + r.uuids
       /\ UNCHANGED <<projects, goals, insights, files, disk, deleted, generated>>

FinishCreateProject(i) ==
    /\ i \in Pending("create_project")
    /\ Answer(i)
    /\ projects' = save_json_data(projects, inflight[i].data)
    /\ generated' = Put(generated, inflight[i].id, 0)
    /\ UNCHANGED <<goals, insights, files, disk, deleted>>

BeginUploadFile(request) ==
    LET r == upload_file(request, files, disk, Now)
    IN /\ Arrive([op |-> "upload_file", form |-> request], r,
                 IF Succeeded(r) THEN r.resp.file.id ELSE 0,
                 r.files, DOMAIN load_json_data(files))
       /\ disk' = r.disk
       /\ nextId' = nextId + r.uuids
       /\ UNCHANGED <<projects, goals, insights, files, deleted, generated>>

FinishUploadFile(i) ==
    /\ i \in Pending("upload_file")
    /\ Answer(i)
    /\ files' = save_json_data(files, inflight[i].data)
    /\ UNCHANGED <<projects, goals, insights, disk, deleted, generated>>

BeginDeleteFile(file_id) ==
    LET r == delete_file(file_id, files, disk)
    IN /\ Arrive([op |-> "delete_file", id |-> file_id], r, file_id,
                 r.files, DOMAIN load_json_data(files))
       /\ disk' = r.disk
       /\ deleted' = IF Succeeded(r)
                     THEN [deleted EXCEPT !.files = @ \cup {files[file_id]}]
                     ELSE deleted
       /\ UNCHANGED <<projects, goals, insights, files, nextId, generated>>

FinishDeleteFile(i) ==
    /\ i \in Pending("delete_file")
    /\ Answer(i)
    /\ files' = save_json_data(files, inflight[i].data)
    /\ UNCHANGED <<projects, goals, insights, disk, deleted, generated>>

\* Project creations, uploads and file deletions whose steps interleave.
InitRace == Boot /\ horizon = MaxRequests

NextRace ==
    \/ \E data \in CoreProjectBodies : BeginCreateProject(data)
    \/ \E i \in DOMAIN inflight : FinishCreateProject(i)
    \/ \E request \in UploadRequests(CoreFileNames) : BeginUploadFile(request)
    \/ \E i \in DOMAIN inflight : FinishUploadFile(i)
    \/ \E f \in FileRefs : BeginDeleteFile(f)
    \/ \E i \in DOMAIN inflight : FinishDeleteFile(i)

SpecRace == InitRace /\ [][NextRace]_vars

\* ------------------------------------------------------ failing saves
\* The store files stop being writable (the mode or the owner of the data
\* directory changes, the volume fills or is remounted read-only), or
\* become writable again; the stores keep their contents.
StoreBecomesUnwritable ==
    /\ writable
    /\ writable' = FALSE
    /\ UNCHANGED <<projects, goals, insights, files, disk, clock, nextId, req, resp,
                   deleted, generated, inflight, horizon>>

StoreBecomesWritable ==
    /\ ~writable
    /\ writable' = TRUE
    /\ UNCHANGED <<projects, goals, insights, files, disk, clock, nextId, req, resp,
                   deleted, generated, inflight, horizon>>

\* The whole service, one request after the other, with saves that can fail.
InitFaulty == Boot /\ horizon = MaxFaultClock

NextFaulty ==
    \/ Next
    \/ StoreBecomesUnwritable
    \/ StoreBecomesWritable

SpecFaulty == InitFaulty /\ [][NextFaulty]_vars

\* ------------------------------------------------------------------ claims
\* What the next GET /api/projects answers in the current state.
Listing == get_projects(projects, goals, insights, files).resp.projects

\* A text that is empty or made of whitespace only.
Blank(s) == \A i \in DOMAIN s : s[i] \in {" ", "\t"}

\* s without its leading and trailing whitespace, stated without recursion.
Trimmed(s) ==
    LET inner == {i \in DOMAIN s : s[i] \notin {" ", "\t"}}
    IN IF inner = {} THEN <<>>
       ELSE SubSeq(s, CHOOSE i \in inner : \A j \in inner : i <= j,
                      CHOOSE i \in inner : \A j \in inner : i >= j)

\* C1 as stated: a POST /api/projects whose name is not the empty string is
\* answered 201 and the next listing shows a project with that name, status
\* "setup", progress 0 and zero counts.
C1_AnyNonEmptyNameCreates ==
    (req.op = "create_project" /\ "name" \in DOMAIN req.data /\ req.data.name # <<>>)
    => /\ resp.status = 201
       /\ \E i \in DOMAIN Listing :
             /\ Listing[i].id = resp.project.id
             /\ Listing[i].name = resp.project.name
             /\ Listing[i].status = "setup"
             /\ Listing[i].research_progress = 0
             /\ Listing[i].documents_count = 0
             /\ Listing[i].goals_count = 0
             /\ Listing[i].insights_count = 0

\* C1 amended: a POST /api/projects whose name is non-empty once surrounding
\* whitespace is stripped is answered 201, and the next GET /api/projects
\* lists exactly one project with the answered id; it bears the stripped
\* name, status "setup", research_progress 0 and three zero counts.
C1_CreatedProjectListed ==
    (req.op = "create_project" /\ "name" \in DOMAIN req.data /\ ~Blank(req.data.name))
    => /\ resp.status = 201
       /\ resp.project.name = Trimmed(req.data.name)
       /\ Cardinality({i \in DOMAIN Listing : Listing[i].id = resp.project.id}) = 1
       /\ \A i \in DOMAIN Listing :
             Listing[i].id = resp.project.id
             => /\ Listing[i].name = Trimmed(req.data.name)
                /\ Listing[i].status = "setup"
                /\ Listing[i].research_progress = 0
                /\ Listing[i].documents_count = 0
                /\ Listing[i].goals_count = 0
                /\ Listing[i].insights_count = 0

\* C1 witness: a project was created from a name with surrounding whitespace
\* while goals and another project were already stored.
C1_Witness ==
    /\ req.op = "create_project"
    /\ resp.status = 201
    /\ "name" \in DOMAIN req.data
    /\ req.data.name # resp.project.name
    /\ DOMAIN goals # {}
    /\ Cardinality(DOMAIN projects) >= 2

\* C2: a POST /api/projects whose name, or a POST /api/goals/project/<id>
\* whose title, is missing, empty or whitespace-only is answered 400 and
\* leaves the four stores as they were.
C2_ValidationChangesNothing ==
    [][ ( \/ req'.op = "create_project" /\ Blank(Get(req'.data, "name", <<>>))
          \/ req'.op = "create_goal" /\ Blank(Get(req'.data, "title", <<>>)) )
        => /\ resp'.status = 400
           /\ UNCHANGED <<projects, goals, insights, files>> ]_vars

\* C2 witness: a goal with a whitespace-only title was refused while projects
\* and goals were stored.
C2_Witness ==
    /\ req.op = "create_goal"
    /\ "title" \in DOMAIN req.data
    /\ req.data.title # <<>>
    /\ Blank(req.data.title)
    /\ resp.status = 400
    /\ DOMAIN projects # {}
    /\ DOMAIN goals # {}

\* The number of records of a store that belong to a project.
Owned(store, project_id) ==
    Cardinality({k \in DOMAIN store : store[k].project_id = project_id})

\* C3: every GET /api/projects answer lists each stored project once, with
\* documents_count, goals_count and insights_count equal to the number of
\* records of files, goals and insights whose project_id is that project's id.
C3_ListedCountsAreCurrent ==
    req.op = "get_projects"
    => /\ resp.status = 200
       /\ Len(resp.projects) = Cardinality(DOMAIN projects)
       /\ {resp.projects[i].id : i \in DOMAIN resp.projects} = DOMAIN projects
       /\ \A i \in DOMAIN resp.projects :
             LET p == resp.projects[i]
             IN /\ p.documents_count = Owned(files, p.id)
                /\ p.goals_count = Owned(goals, p.id)
                /\ p.insights_count = Owned(insights, p.id)

\* C3 witness: a listing reports a project with one goal and three insights
\* although the stored record still carries the zero counts of its creation.
C3_Witness ==
    /\ req.op = "get_projects"
    /\ \E i \in DOMAIN resp.projects :
          /\ resp.projects[i].goals_count = 1
          /\ resp.projects[i].insights_count = 3
          /\ projects[resp.projects[i].id].goals_count = 0

\* Every key of every store.
AllKeys == DOMAIN projects \cup DOMAIN goals \cup DOMAIN insights \cup DOMAIN files

\* C4: POST /api/insights/project/<p>/generate succeeds and adds exactly
\* three insights, each filed under a fresh id of its own with project_id p;
\* the insights stored before are unchanged; a stored project p gets
\* research_progress min(100, old + 25) and no other project changes; when p
\* is not stored the projects store is unchanged.
C4_GenerateAddsThree ==
    [][ req'.op = "generate_insights"
        => LET p == req'.id
               new == DOMAIN insights' \ DOMAIN insights
           IN /\ resp'.status = 200
              /\ Cardinality(new) = 3
              /\ new \cap AllKeys = {}
              /\ \A k \in new : insights'[k].id = k /\ insights'[k].project_id = p
              /\ \A k \in DOMAIN insights : k \in DOMAIN insights' /\ insights'[k] = insights[k]
              /\ DOMAIN projects' = DOMAIN projects
              /\ \A q \in DOMAIN projects \ {p} : projects'[q] = projects[q]
              /\ p \in DOMAIN projects
                 => projects'[p].research_progress =
                        IF projects[p].research_progress + 25 > 100 THEN 100
                        ELSE projects[p].research_progress + 25
              /\ p \notin DOMAIN projects => projects' = projects ]_vars

\* C4 witness: a fifth generation for a stored project, whose progress stays
\* at the cap of 100.
C4_Witness ==
    /\ req.op = "generate_insights"
    /\ resp.status = 200
    /\ req.id \in DOMAIN projects
    /\ projects[req.id].research_progress = 100
    /\ Owned(insights, req.id) = 15

\* C5: a PUT /api/goals/<id> on a stored goal succeeds, sets the fields named
\* in the body to the body's values, sets updated_at to the time of the
\* request, and changes no other field of that goal and no other goal; with
\* the body {"status": "done"} only status and updated_at change.
C5_UpdateTouchesNamedFieldsOnly ==
    [][ (req'.op = "update_goal" /\ req'.id \in DOMAIN goals)
        => LET g == req'.id
               d == req'.data
           IN /\ resp'.status = 200
              /\ DOMAIN goals' = DOMAIN goals
              /\ \A k \in DOMAIN goals \ {g} : goals'[k] = goals[k]
              /\ DOMAIN goals'[g] = DOMAIN goals[g] \cup DOMAIN d
              /\ \A f \in DOMAIN d \ {"updated_at"} : goals'[g][f] = d[f]
              /\ \A f \in DOMAIN goals[g] \ (DOMAIN d \cup {"updated_at"}) :
                    goals'[g][f] = goals[g][f]
              /\ goals'[g].updated_at = clock
              /\ d = [status |-> "done"]
                 => \A f \in {"id", "title", "description", "priority", "project_id",
                              "created_at", "progress"} : goals'[g][f] = goals[g][f] ]_vars

\* C5 witness: {"status": "done"} was applied to a goal with a description
\* while another goal was stored, and its updated_at moved past created_at.
C5_Witness ==
    /\ req.op = "update_goal"
    /\ req.data = [status |-> "done"]
    /\ resp.status = 200
    /\ goals[req.id].status = "done"
    /\ goals[req.id].description # <<>>
    /\ goals[req.id].updated_at > goals[req.id].created_at
    /\ Cardinality(DOMAIN goals) >= 2

\* C6: once a DELETE of a goal or of a file was answered with success, no
\* record of the store carries that id (none is filed under it, none shows it
\* in a listing), and the deleted file's path is not on disk.
C6_DeletedNeverListed ==
    /\ \A g \in deleted.goals :
          g \notin DOMAIN goals /\ \A k \in DOMAIN goals : goals[k].id # g
    /\ \A f \in deleted.files :
          /\ f.id \notin DOMAIN files
          /\ \A k \in DOMAIN files : files[k].id # f.id
          /\ f.path \notin disk

\* The part of C6 that rests on the keys alone: a deleted id is filed under
\* no more, and the deleted file's path stays off the disk.
C6_DeletedKeyNeverReturns ==
    /\ \A g \in deleted.goals : g \notin DOMAIN goals
    /\ \A f \in deleted.files : f.id \notin DOMAIN files /\ f.path \notin disk

\* C7: DELETE /api/files/<id>, DELETE /api/goals/<id>, PUT /api/goals/<id>,
\* start-research and start-live with an id that is no key of their store are
\* answered 404 and change no store and no uploaded file.
C7_NotFoundChangesNothing ==
    [][ ( \/ req'.op = "delete_file" /\ req'.id \notin DOMAIN files
          \/ req'.op \in {"delete_goal", "update_goal"} /\ req'.id \notin DOMAIN goals
          \/ req'.op \in {"start_research", "start_live_research"}
             /\ req'.id \notin DOMAIN projects )
        => /\ resp'.status = 404
           /\ UNCHANGED <<projects, goals, insights, files, disk>> ]_vars

\* C7 witness: a PUT on the id of a deleted goal was answered 404 while
\* another goal was stored.
C7_Witness ==
    /\ req.op = "update_goal"
    /\ req.id \in deleted.goals
    /\ resp.status = 404
    /\ DOMAIN goals # {}

\* A file name whose text after the last dot is, in lower case, on the
\* allow-list.
HasAllowedExtension(fn) ==
    \E ext \in ALLOWED_EXTENSIONS :
        /\ Len(fn) > Len(ext)
        /\ fn[Len(fn) - Len(ext)] = "."
        /\ Lower(SubSeq(fn, Len(fn) - Len(ext) + 1, Len(fn))) = ext

\* C8: an upload with a file part, a non-empty project_id and a file name
\* with an allowed extension succeeds and its record is in the files store
\* with the submitted file name as original_name and the submitted project_id.
C8_AllowedUploadStored ==
    (/\ req.op = "upload_file"
     /\ req.form.has_file
     /\ req.form.project_id # <<>>
     /\ HasAllowedExtension(req.form.filename))
    => /\ resp.status = 200
       /\ \E k \in DOMAIN files :
             /\ files[k].original_name = req.form.filename
             /\ files[k].project_id = req.form.project_id[1]

\* C9: an upload without a file part, without a project_id, with an empty
\* file name, or with a file name that has no dot or a disallowed extension
\* is answered 400, writes no file and leaves the files store unchanged.
C9_BadUploadRejected ==
    [][ (/\ req'.op = "upload_file"
         /\ \/ ~req'.form.has_file
            \/ req'.form.project_id = <<>>
            \/ req'.form.filename = <<>>
            \/ ~HasAllowedExtension(req'.form.filename))
        => /\ resp'.status = 400
           /\ disk' = disk
           /\ files' = files
           /\ nextId' = nextId ]_vars

\* C9 witness: "a.exe" was refused while a file was stored and on disk.
C9_Witness ==
    /\ req.op = "upload_file"
    /\ req.form.has_file
    /\ req.form.project_id # <<>>
    /\ req.form.filename = <<"a", ".", "e", "x", "e">>
    /\ resp.status = 400
    /\ DOMAIN files # {}
    /\ disk # {}

\* No two records of a store carry the same id, and each carries its key.
UniqueIds(store) ==
    /\ \A k \in DOMAIN store : store[k].id = k
    /\ \A j, k \in DOMAIN store : j # k => store[j].id # store[k].id

\* C10: in every reachable state no two records of a store carry the same
\* id and every record's id is the key it is filed under.
C10_IdsUniqueAndKeyed ==
    UniqueIds(projects) /\ UniqueIds(goals) /\ UniqueIds(insights) /\ UniqueIds(files)

\* C11: over any sequence of requests served one after the other, no request
\* removes a project id or an insight id from its store, and no request
\* changes an insight that is already stored.
C11_ProjectsAndInsightsAppendOnly ==
    [][ /\ DOMAIN projects \subseteq DOMAIN projects'
        /\ DOMAIN insights \subseteq DOMAIN insights'
        /\ \A k \in DOMAIN insights : insights'[k] = insights[k] ]_vars

\* C11 witness: a start-research was answered 200 for a stored project that
\* had three insights, which rewrote the project and kept all of them.
C11_Witness ==
    /\ req.op = "start_research"
    /\ resp.status = 200
    /\ Owned(insights, req.id) = 3
    /\ projects[req.id].research_progress = 0

\* The fields of a project that a start request writes.
StartFields == {"status", "research_progress", "updated_at", "live_research_started"}

\* C12: start-research and start-live on a stored project are answered 200,
\* set its status to "researching", its research_progress to 0 and its
\* updated_at to the time of the request, later than it was; every other
\* field of the project, every other project, the other stores and the
\* uploaded files stay as they were; start-research adds no field and
\* start-live adds live_research_started = true.
C12_StartResetsProject ==
    [][ (req'.op \in {"start_research", "start_live_research"} /\ req'.id \in DOMAIN projects)
        => LET p == req'.id
               old == projects[p]
               new == projects'[p]
           IN /\ resp'.status = 200
              /\ DOMAIN projects' = DOMAIN projects
              /\ new.status = "researching"
              /\ new.research_progress = 0
              /\ new.updated_at = clock
              /\ new.updated_at > old.updated_at
              /\ \A k \in DOMAIN old \ StartFields : k \in DOMAIN new /\ new[k] = old[k]
              /\ IF req'.op = "start_live_research"
                 THEN /\ DOMAIN new = DOMAIN old \cup {"live_research_started"}
                      /\ new.live_research_started = TRUE
                 ELSE /\ DOMAIN new = DOMAIN old
                      /\ "live_research_started" \in DOMAIN old
                         => new.live_research_started = old.live_research_started
              /\ \A q \in DOMAIN projects \ {p} : projects'[q] = projects[q]
              /\ UNCHANGED <<goals, insights, files, disk>> ]_vars

\* C12 witness: of two stored projects, the one whose progress a generation
\* had raised to 25 was reset by the start-live served last.
C12_Witness ==
    /\ req.op = "start_live_research"
    /\ resp.status = 200
    /\ Cardinality(DOMAIN projects) = 2
    /\ clock = 4
    /\ Cardinality(DOMAIN insights) = 3
    /\ Owned(insights, req.id) = 3
    /\ projects[req.id].updated_at = 3
    /\ projects[req.id].research_progress = 0
    /\ projects[req.id].live_research_started

\* C13: in every reachable state every stored project's research_progress is
\* an integer in 0..100 and equals min(100, 25 * k), k being the number of
\* generate-insights requests served for the project since it was created or
\* last started; so it is 0 right after creation, start-research and
\* start-live.
C13_ProgressIsCappedCount ==
    /\ DOMAIN generated = DOMAIN projects
    /\ \A p \in DOMAIN projects :
          /\ projects[p].research_progress \in 0..100
          /\ projects[p].research_progress = Min(100, 25 * generated[p])
    /\ (req.op = "create_project" /\ resp.status = 201)
       => projects[resp.project.id].research_progress = 0
    /\ (req.op \in {"start_research", "start_live_research"} /\ resp.status = 200)
       => projects[req.id].research_progress = 0

\* C13 witness: the fifth generation since the project was created, where
\* 25 * 5 exceeds the cap and the progress is 100.
C13_Witness ==
    /\ req.op = "generate_insights"
    /\ req.id \in DOMAIN projects
    /\ generated[req.id] = 5
    /\ projects[req.id].research_progress = 100

\* The requests of inflight that were project creations answered 201.
Created == {i \in DOMAIN inflight : /\ inflight[i].req.op = "create_project"
                                    /\ inflight[i].pc = "done"
                                    /\ inflight[i].resp.status = 201}

\* C14: a handler's save is a step of its own that overwrites the whole store
\* with what the handler loaded plus its own change, without a lock or a
\* version check: when a project creation saves, it is answered 201, its
\* project is stored, and every project created with success that it had not
\* loaded (the other request saved after this one loaded) is no longer in
\* the store.
C14_SaveDropsUnseenWrites ==
    [][ \A j \in DOMAIN inflight :
            (/\ inflight[j].req.op = "create_project"
             /\ inflight[j].pc = "loaded"
             /\ inflight'[j].pc = "done")
            => /\ resp'.status = 201
               /\ resp'.project.id = inflight[j].id
               /\ inflight[j].id \in DOMAIN projects'
               /\ \A i \in Created :
                     inflight[i].id \notin inflight[j].seen
                     => inflight[i].id \notin DOMAIN projects' ]_vars

\* C14 witness: two project creations were the only requests, each loaded
\* the empty store (so both loaded before either saved), both were answered
\* 201, and the store holds one project only: the first writer's is lost.
C14_Witness ==
    /\ Len(inflight) = 2
    /\ Created = {1, 2}
    /\ inflight[1].seen = {} /\ inflight[2].seen = {}
    /\ Cardinality(DOMAIN projects) = 1
    /\ \E i \in Created : inflight[i].id \notin DOMAIN projects

\* No request is between its load and its save.
Idle == \A i \in DOMAIN inflight : inflight[i].pc = "done"

\* No request began while another was between its load and its save.
Serial == \A i \in DOMAIN inflight : ~inflight[i].overlapped

\* The records of the files store and the uploaded files on disk are in
\* one-to-one correspondence by the recorded path.
Corresponds ==
    /\ {files[k].path : k \in DOMAIN files} = disk
    /\ \A k1, k2 \in DOMAIN files : files[k1].path = files[k2].path => k1 = k2

\* C15 as stated: whenever no request is in progress, a record is in the
\* files store if and only if the file at its recorded path is on disk, also
\* after uploads and deletes whose load and save steps interleaved.
C15_CorrespondsWheneverIdle == Idle => Corresponds

\* C15 amended: whenever no request is in progress, and no request so far
\* began while another was between its load and its save, a record is in the
\* files store if and only if the file at its recorded path is on disk.
C15_CorrespondsAfterSerialRuns == (Idle /\ Serial) => Corresponds

\* C15 witness: two uploads and a delete, served one after the other, left
\* one record and its file.
C15_Witness ==
    /\ Idle /\ Serial
    /\ Len(inflight) = 3
    /\ \A i \in DOMAIN inflight : inflight[i].resp.status = 200
    /\ Cardinality({i \in DOMAIN inflight : inflight[i].req.op = "upload_file"}) = 2
    /\ Cardinality(DOMAIN files) = 1
    /\ Cardinality(disk) = 1

\* C16: a success status from a mutating endpoint implies that the mutation
\* is in the persisted store: after a 201 or 200 answer the created project,
\* goal or file record is stored as answered, the updated goal is stored as
\* answered, the deleted goal or file record is gone, the started project is
\* "researching" at progress 0 with the time of the request, and the three
\* generated insights are stored.
C16_SuccessMeansPersisted ==
    /\ (req.op = "create_project" /\ resp.status = 201)
       => /\ resp.project.id \in DOMAIN projects
          /\ projects[resp.project.id] = resp.project
    /\ (req.op = "create_goal" /\ resp.status = 201)
       => /\ resp.goal.id \in DOMAIN goals
          /\ goals[resp.goal.id] = resp.goal
    /\ (req.op = "update_goal" /\ resp.status = 200)
       => /\ req.id \in DOMAIN goals
          /\ goals[req.id] = resp.goal
    /\ (req.op = "delete_goal" /\ resp.status = 200) => req.id \notin DOMAIN goals
    /\ (req.op = "upload_file" /\ resp.status = 200)
       => /\ resp.file.id \in DOMAIN files
          /\ files[resp.file.id] = resp.file
    /\ (req.op = "delete_file" /\ resp.status = 200) => req.id \notin DOMAIN files
    /\ (req.op \in {"start_research", "start_live_research"} /\ resp.status = 200)
       => /\ req.id \in DOMAIN projects
          /\ projects[req.id].status = "researching"
          /\ projects[req.id].research_progress = 0
          /\ projects[req.id].updated_at = clock - 1
    /\ (req.op = "generate_insights" /\ resp.status = 200)
       => Cardinality({k \in DOMAIN insights : /\ insights[k].project_id = req.id
                                                /\ insights[k].created_at = clock - 1}) = 3

==============================================================================
